---------------------------- MODULE Spec2Model ----------------------------
(***************************************************************************)
(* A model of the WorldQuant Brain batch alpha system:                     *)
(*   - SessionManager (session_manager.py): the authenticated session,     *)
(*     get_session / create_session, post / get and request_with_retry;    *)
(*   - BrainBatchAlpha (brain_batch_alpha.py): the job runner, the batch   *)
(*     orchestrator, the persistence of qualifying results;                *)
(*   - submit_alpha_ids (main.py): the submission driver.                  *)
(*                                                                         *)
(* Time is counted in units of 3.5 hours (the session's validity window),  *)
(* so that "age > window" and "age = window" are both reachable with a     *)
(* small clock.  The clock advances only while some thread is blocked in a *)
(* network call or a sleep, or while the program is idle.                  *)
(***************************************************************************)
EXTENDS Integers, Sequences, FiniteSets, TLC

\* ------------------------------------------------------------------ bounds
MaxClock == 3        \* the clock stops advancing here
MaxCalls == 2        \* calls of request_with_retry made by the caller
NumThreads == 2      \* threads sharing one SessionManager
MaxOps == 3          \* post / get calls made by those threads together
NumAlphas == 2       \* candidates in alpha_list
MaxSaves == 2        \* calls of _save_alpha_id outside simulate_alphas
MaxRuns == 2         \* runs of submit_alpha_ids
MaxChecks == 2       \* entries in the checks list of a metrics payload

\* ------------------------------------------------------- program constants
session_valid_duration == 1   \* timedelta(hours=3.5), in units of 3.5 hours
max_retries == 3              \* request_with_retry's default retry bound

Methods == {"GET", "post", "put"}
Statuses == {200, 401, 500}
HandshakeStatuses == {201, 403}

VARIABLES
    \* SessionManager
    session,             \* self.session: the identity of the current handle
    session_created_at,  \* self.session_created_at
    handshake,           \* per handle: "pending", "ok" or "rejected"
    now,                 \* datetime.now()
    \* one caller of request_with_retry
    call,                \* the frame of request_with_retry
    ncalls,
    \* threads calling SessionManager.post / SessionManager.get
    thr,                 \* per thread: where it is in post / get
    nops,
    \* simulate_alphas
    future,              \* per candidate: the future's state and its result
    run,                 \* per pool thread: the frame of _simulate_single_alpha
    main,                \* the frame of simulate_alphas (the as_completed loop)
    print_lock,          \* self.print_lock: the set of threads holding it
    results_lock,        \* results_lock: the set of threads holding it
    results,             \* the list simulate_alphas returns
    progress,            \* total_pbar.n
    \* files
    files,               \* path -> whether the file exists, and its lines
    \* submit_alpha_ids
    drv,                 \* the frame of submit_alpha_ids, submit_multiple_alphas, submit_alpha
    appended,            \* identifiers _save_alpha_id has written to its list
    submitted,           \* identifiers whose submission was confirmed
    nsaves,
    nruns,
    \* one call of check_alpha_qualification
    evaluation           \* its argument, and what it printed and returned

smVars == <<session, session_created_at, handshake, now>>
retryVars == <<call, ncalls>>
threadVars == <<thr, nops>>
batchVars == <<future, run, main, print_lock, results_lock, results, progress>>
storeVars == <<drv, appended, submitted, nsaves, nruns>>
vars == <<smVars, retryVars, threadVars, batchVars, files, storeVars, evaluation>>

\* what each specification leaves alone
OutsideRetry == <<threadVars, batchVars, files, storeVars, evaluation>>
OutsideSession == <<retryVars, batchVars, files, storeVars, evaluation>>
OutsideBatch == <<smVars, retryVars, threadVars, storeVars, evaluation>>
OutsideStore == <<smVars, retryVars, threadVars, batchVars, evaluation>>
OutsideEval == <<smVars, retryVars, threadVars, batchVars, files, storeVars>>

\* ---------------------------------------------------------- SessionManager

\* str.lower() on the method names the model draws from.
lower(m) ==
    CASE m = "GET" -> "get"
      [] m = "POST" -> "post"
      [] OTHER -> m

\* _is_session_expiring: session_created_at is never None once __init__ has
\* returned, so only the comparison is left.
is_session_expiring(created_at, t) == t - created_at > session_valid_duration

\* create_session up to the handshake POST: a fresh requests.Session() is
\* stored in self.session before the handshake is answered.
create_session_begin ==
    /\ session' = Len(handshake) + 1
    /\ handshake' = Append(handshake, "pending")

\* create_session from the handshake's answer on handle h: 200/201 stamps
\* the creation time, anything else raises and leaves it alone.
handshake_ok(status) == status \in {200, 201}

create_session_end(h, status) ==
    /\ handshake' = [handshake EXCEPT ![h] =
                        IF handshake_ok(status) \/ @ = "ok" THEN "ok" ELSE "rejected"]
    /\ session_created_at' = IF handshake_ok(status) THEN now ELSE session_created_at

Threads == 1..NumThreads

IdleThread ==
    [pc |-> "idle", hs |-> 0, handle |-> 0, outcome |-> "none",
     entryValid |-> TRUE, entrySession |-> 0, nhs |-> 0, retAge |-> 0]

\* ------------------------------------------------------ request_with_retry

IdleCall ==
    [pc |-> "idle", method |-> "get", retries |-> 0, response |-> <<>>,
     handle |-> 0, attempts |-> <<>>, recreations |-> 0, pauses |-> 0,
     startedValid |-> TRUE, error |-> "none", received |-> <<>>]

EndAttempt(c, how) == [c EXCEPT !.attempts = Append(@, how)]

\* a plausible slip: "retries <= max_retries" in the except clause.
ExceptHandler_OffByOne(c, how, err) ==
    LET r == c.retries + 1 IN
    IF r <= max_retries
    THEN [EndAttempt(c, how) EXCEPT !.retries = r, !.pc = "sleep",
                                    !.pauses = @ + 1, !.error = err]
    ELSE [EndAttempt(c, how) EXCEPT !.retries = r, !.pc = "raised", !.error = err]

\* the except clause: count the retry, then sleep and recreate, or re-raise.
ExceptHandler(c, how, err) ==
    LET r == c.retries + 1 IN
    IF r < max_retries
    THEN [EndAttempt(c, how) EXCEPT !.retries = r, !.pc = "sleep",
                                    !.pauses = @ + 1, !.error = err]
    ELSE [EndAttempt(c, how) EXCEPT !.retries = r, !.pc = "raised", !.error = err]

\* the verb dispatch, on the handle get_session returned.
IssueRequest(c, h) ==
    IF lower(c.method) \in {"get", "post"}
    THEN [c EXCEPT !.pc = "request", !.handle = h]
    ELSE ExceptHandler(c, "usage", "ValueError")

\* the while test and the try body up to its first blocking call.
WhileLoop(c, created_at, h) ==
    IF c.retries < max_retries
    THEN IF is_session_expiring(created_at, now)
         THEN [c EXCEPT !.pc = "get_session", !.recreations = @ + 1]
         ELSE IssueRequest(c, h)
    ELSE [c EXCEPT !.pc = "returned", !.response = <<>>]

\* a plausible slip: the 401 branch counts the retry without recreating.
On401_NoRecreate(c) ==
    WhileLoop([EndAttempt(c, "401") EXCEPT !.retries = @ + 1],
              session_created_at, session)

\* the 401 branch: create_session is called before retries is counted.
On401(c) == [c EXCEPT !.pc = "create401", !.recreations = @ + 1]

\* a response other than 401 is returned to the caller.
OnResponse(c, status) ==
    IF status = 401 THEN On401(c)
    ELSE [EndAttempt(c, "return") EXCEPT !.pc = "returned", !.response = <<status>>]

CreatingPcs == {"get_session", "create401", "createExc"}

\* The caller starts request_with_retry(method, url).
Call(m) ==
    /\ UNCHANGED OutsideRetry
    /\ call.pc \in {"idle", "returned", "raised"}
    /\ ncalls < MaxCalls
    /\ ncalls' = ncalls + 1
    /\ call' = WhileLoop([IdleCall EXCEPT !.method = m,
                              !.startedValid = ~is_session_expiring(session_created_at, now)],
                         session_created_at, session)
    /\ IF call'.pc = "get_session"
       THEN create_session_begin /\ UNCHANGED <<session_created_at, now>>
       ELSE UNCHANGED smVars

\* session.get / session.post is answered.
RequestReturns(status) ==
    /\ UNCHANGED OutsideRetry
    /\ call.pc = "request"
    /\ call' = OnResponse([call EXCEPT !.received = <<status>>], status)
    /\ IF call'.pc = "create401"
       THEN create_session_begin /\ UNCHANGED <<session_created_at, now>>
       ELSE UNCHANGED smVars
    /\ UNCHANGED ncalls

\* session.get / session.post raises (connection error, timeout).
RequestRaises ==
    /\ UNCHANGED OutsideRetry
    /\ call.pc = "request"
    /\ call' = ExceptHandler(call, "transport", "RequestException")
    /\ UNCHANGED <<smVars, ncalls>>

\* time.sleep(5) ends and the except clause calls create_session.
SleepEnds ==
    /\ UNCHANGED OutsideRetry
    /\ call.pc = "sleep"
    /\ call' = [call EXCEPT !.pc = "createExc", !.recreations = @ + 1]
    /\ create_session_begin
    /\ UNCHANGED <<session_created_at, now, ncalls>>

\* The handshake of a create_session made by request_with_retry is answered.
HandshakeReturns(status) ==
    /\ UNCHANGED OutsideRetry
    /\ call.pc \in CreatingPcs
    /\ create_session_end(session, status)
    /\ call' =
         IF handshake_ok(status)
         THEN CASE call.pc = "get_session" -> IssueRequest(call, session)
                [] call.pc = "create401" ->
                     WhileLoop([EndAttempt(call, "401") EXCEPT !.retries = @ + 1],
                               now, session)
                [] call.pc = "createExc" -> WhileLoop(call, now, session)
         ELSE CASE call.pc = "createExc" ->
                     \* raised inside the except clause: it leaves the function
                     [call EXCEPT !.pc = "raised", !.error = "AuthenticationFailed"]
                [] OTHER -> ExceptHandler(call, "auth", "AuthenticationFailed")
    /\ UNCHANGED <<session, now, ncalls>>

\* Time passes while the caller is blocked or between calls.
Elapse ==
    /\ UNCHANGED OutsideRetry
    /\ now < MaxClock
    /\ call.pc \in {"idle", "returned", "raised", "request", "sleep"} \cup CreatingPcs
    /\ now' = now + 1
    /\ UNCHANGED <<session, session_created_at, handshake, call, ncalls>>

\* ------------------------------------------------ check_alpha_qualification

\* JSON values of the metrics payload.  Numbers are counted in hundredths
\* (1.5 is 150); a key may be absent, or hold null.
Num(v) == [t |-> "num", v |-> v]
Null == [t |-> "null", v |-> 0]
Absent == [t |-> "absent", v |-> 0]

\* dict.get(key, default)
Get(x, default) == IF x.t = "absent" THEN default ELSE x

\* float(x) raises on anything but a number or a numeric string
float_raises(x) == x.t # "num"
float(x) == x.v

SubUniverse == "LOW_SUB_UNIVERSE_SHARPE"

\* An 'is' payload: the four metrics, the checks list (has_checks FALSE when
\* the key is absent) and whether the payload holds any other key.
MakeIs(sharpe, fitness, turnover, margin, has_checks, checks, other) ==
    [sharpe |-> sharpe, fitness |-> fitness, turnover |-> turnover,
     margin |-> margin, has_checks |-> has_checks, checks |-> checks, other |-> other]

\* one entry of the checks list; name and result are <<>> when absent
MakeCheck(name, result, value, limit) ==
    [name |-> name, result |-> result, value |-> value, limit |-> limit]

NoCheck == MakeCheck(<<>>, <<>>, Absent, Absent)

\* "not is_data": the payload is an empty dict
is_empty(m) ==
    /\ m.sharpe.t = "absent" /\ m.fitness.t = "absent"
    /\ m.turnover.t = "absent" /\ m.margin.t = "absent"
    /\ ~m.has_checks /\ ~m.other

\* is_data.get('checks', [])
checks_of(m) == IF m.has_checks THEN m.checks ELSE <<>>

\* next(check for check in checks if check['name'] == SubUniverse): the
\* position of the first such check, 0 when the generator is exhausted
sub_universe_index(cs) ==
    IF \E i \in 1..Len(cs) : cs[i].name = <<SubUniverse>>
    THEN CHOOSE i \in 1..Len(cs) :
            /\ cs[i].name = <<SubUniverse>>
            /\ \A j \in 1..(i - 1) : cs[j].name # <<SubUniverse>>
    ELSE 0

\* check['name'] raises KeyError on a check without a name that the
\* generator reaches
name_raises(cs) ==
    \E i \in 1..Len(cs) :
        /\ cs[i].name = <<>>
        /\ \A j \in 1..(i - 1) : cs[j].name # <<SubUniverse>>

sub_universe_check(m) ==
    LET i == sub_universe_index(checks_of(m)) IN
    IF i = 0 THEN NoCheck ELSE checks_of(m)[i]

\* an exception before the first print block: a float() or check['name']
raises_before_print(m) ==
    \/ float_raises(Get(m.sharpe, Num(0)))
    \/ float_raises(Get(m.fitness, Num(0)))
    \/ float_raises(Get(m.turnover, Num(0)))
    \/ float_raises(Get(m.margin, Num(0)))
    \/ name_raises(checks_of(m))
    \/ float_raises(Get(sub_universe_check(m).value, Num(0)))
    \/ float_raises(Get(sub_universe_check(m).limit, Num(0)))

\* a plausible slip: the upper bound of the turnover is not checked
failed_criteria_NoUpper(m) ==
    LET sharpe == float(Get(m.sharpe, Num(0)))
        fitness == float(Get(m.fitness, Num(0)))
        turnover == float(Get(m.turnover, Num(0)))
        ic_mean == float(Get(m.margin, Num(0)))
        sub == sub_universe_check(m)
        subuniverse_sharpe == float(Get(sub.value, Num(0)))
        required_subuniverse_sharpe == float(Get(sub.limit, Num(0)))
    IN  (IF sharpe < 150 THEN {"sharpe"} ELSE {})
        \cup (IF fitness < 100 THEN {"fitness"} ELSE {})
        \cup (IF turnover < 10 THEN {"turnover"} ELSE {})
        \cup (IF ic_mean < 2 THEN {"ic_mean"} ELSE {})
        \cup (IF subuniverse_sharpe < required_subuniverse_sharpe
              THEN {"subuniverse_sharpe"} ELSE {})

\* a plausible slip: the thresholds are exclusive
failed_criteria_Strict(m) ==
    LET sharpe == float(Get(m.sharpe, Num(0)))
        fitness == float(Get(m.fitness, Num(0)))
        turnover == float(Get(m.turnover, Num(0)))
        ic_mean == float(Get(m.margin, Num(0)))
        sub == sub_universe_check(m)
        subuniverse_sharpe == float(Get(sub.value, Num(0)))
        required_subuniverse_sharpe == float(Get(sub.limit, Num(0)))
    IN  (IF sharpe <= 150 THEN {"sharpe"} ELSE {})
        \cup (IF fitness <= 100 THEN {"fitness"} ELSE {})
        \cup (IF turnover <= 10 \/ turnover >= 90 THEN {"turnover"} ELSE {})
        \cup (IF ic_mean <= 2 THEN {"ic_mean"} ELSE {})
        \cup (IF subuniverse_sharpe <= required_subuniverse_sharpe
              THEN {"subuniverse_sharpe"} ELSE {})

\* the criteria printed as failed, for a payload on which nothing raises
failed_criteria(m) ==
    LET sharpe == float(Get(m.sharpe, Num(0)))
        fitness == float(Get(m.fitness, Num(0)))
        turnover == float(Get(m.turnover, Num(0)))
        ic_mean == float(Get(m.margin, Num(0)))
        sub == sub_universe_check(m)
        subuniverse_sharpe == float(Get(sub.value, Num(0)))
        required_subuniverse_sharpe == float(Get(sub.limit, Num(0)))
    IN  (IF sharpe < 150 THEN {"sharpe"} ELSE {})
        \cup (IF fitness < 100 THEN {"fitness"} ELSE {})
        \cup (IF turnover < 10 \/ turnover > 90 THEN {"turnover"} ELSE {})
        \cup (IF ic_mean < 2 THEN {"ic_mean"} ELSE {})
        \cup (IF subuniverse_sharpe < required_subuniverse_sharpe
              THEN {"subuniverse_sharpe"} ELSE {})

\* a plausible slip: a check still PENDING does not disqualify
checks_disqualify_FailOnly(m) ==
    \E i \in 1..Len(checks_of(m)) : checks_of(m)[i].result = <<"FAIL">>

\* the loop over the checks: FAIL and PENDING disqualify
checks_disqualify(m) ==
    \E i \in 1..Len(checks_of(m)) :
        checks_of(m)[i].result \in {<<"FAIL">>, <<"PENDING">>}

\* the value check_alpha_qualification returns
check_alpha_qualification(m) ==
    IF is_empty(m) THEN FALSE
    ELSE IF raises_before_print(m) THEN FALSE
    ELSE failed_criteria(m) = {} /\ ~checks_disqualify(m)

\* payloads the remote service answers with in the orchestrator's runs
PassCheck == MakeCheck(<<SubUniverse>>, <<"PASS">>, Num(200), Num(100))
GoodIs == MakeIs(Num(180), Num(120), Num(50), Num(3), TRUE, <<PassCheck>>, FALSE)
BadIs == MakeIs(Num(100), Num(120), Num(50), Num(3), TRUE, <<PassCheck>>, FALSE)
NullIs == MakeIs(Null, Num(120), Num(50), Num(3), TRUE, <<PassCheck>>, FALSE)
EmptyIs == MakeIs(Absent, Absent, Absent, Absent, FALSE, <<>>, FALSE)

\* the detail body: <<>> without an 'is' key, else <<is_data>>
DetailBodies == {<<>>, <<GoodIs>>, <<BadIs>>, <<NullIs>>, <<EmptyIs>>}

\* ------------------------------- check_alpha_qualification, called on its own

\* values the service reports for each metric: absent, null, and the values
\* on either side of each threshold
SharpeValues == {Absent, Null, Num(149), Num(150)}
FitnessValues == {Num(99), Num(100)}
TurnoverValues == {Absent, Num(9), Num(10), Num(90), Num(91)}
MarginValues == {Absent, Num(1), Num(2)}

\* entries of the checks list
CheckEntries ==
    {MakeCheck(<<SubUniverse>>, <<"PASS">>, Num(100), Num(100)),
     MakeCheck(<<SubUniverse>>, <<"PASS">>, Num(50), Num(100)),
     MakeCheck(<<SubUniverse>>, <<"PASS">>, Absent, Absent),
     MakeCheck(<<"LOW_SHARPE">>, <<"PASS">>, Num(180), Num(125)),
     MakeCheck(<<"LOW_SHARPE">>, <<"FAIL">>, Num(100), Num(125)),
     MakeCheck(<<"SELF_CORRELATION">>, <<"PENDING">>, Absent, Absent),
     MakeCheck(<<"CONCENTRATED_WEIGHT">>, <<"WARNING">>, Absent, Absent),
     MakeCheck(<<"LOW_SHARPE">>, <<>>, Num(180), Num(125)),
     MakeCheck(<<>>, <<"PASS">>, Num(180), Num(125))}

CheckLists == UNION {[1..n -> CheckEntries] : n \in 0..MaxChecks}

\* a payload with keys, none of which the function reads
OtherOnlyIs == MakeIs(Absent, Absent, Absent, Absent, FALSE, <<>>, TRUE)

\* the 'is' payloads check_alpha_qualification is called with
Reports ==
    {MakeIs(s, f, t, g, TRUE, cs, FALSE) :
        s \in SharpeValues, f \in FitnessValues, t \in TurnoverValues,
        g \in MarginValues, cs \in CheckLists}
    \cup {MakeIs(s, f, t, g, FALSE, <<>>, FALSE) :
        s \in SharpeValues, f \in FitnessValues, t \in TurnoverValues,
        g \in MarginValues}
    \cup {GoodIs, OtherOnlyIs}

\* what the function prints besides the metrics: "no_metrics" for an empty
\* payload, "error" from the except clause, else the per-criterion marks
printed(m) ==
    IF is_empty(m) THEN "no_metrics"
    ELSE IF raises_before_print(m) THEN "error"
    ELSE "criteria"

NotCalled == [pc |-> "ready", is_data |-> EmptyIs, printed |-> "none",
              failed |-> {}, is_qualified |-> FALSE]

\* check_alpha_qualification({'is': is_data}) runs and returns
Evaluate ==
    /\ evaluation.pc = "ready"
    /\ evaluation' =
          [evaluation EXCEPT
              !.pc = "returned",
              !.printed = printed(evaluation.is_data),
              !.failed = IF printed(evaluation.is_data) = "criteria"
                         THEN failed_criteria(evaluation.is_data) ELSE {},
              !.is_qualified = check_alpha_qualification(evaluation.is_data)]
    /\ UNCHANGED OutsideEval

\* no call of check_alpha_qualification on its own
ParkedEval == evaluation = [NotCalled EXCEPT !.pc = "returned"]

\* --------------------------------------- SessionManager.post / get, threaded

\* a plausible slip: a validity window one unit too long.
needs_session_Late(created_at, t) == t - created_at > session_valid_duration + 1

\* get_session's test "self.session is None or self._is_session_expiring()":
\* self.session is never None once __init__ has returned.
needs_session(created_at, t) == is_session_expiring(created_at, t)

\* post(url) / get(url) is called (the verb plays no part in how the handle
\* is obtained): get_session either returns the stored handle at once or
\* enters create_session and stores a fresh handle.
SessionCall(t, op) ==
    /\ thr[t].pc = "idle"
    /\ nops < MaxOps
    /\ nops' = nops + 1
    /\ LET valid == now - session_created_at <= session_valid_duration
           f == [IdleThread EXCEPT !.entryValid = valid, !.entrySession = session]
       IN IF needs_session(session_created_at, now)
          THEN /\ create_session_begin
               /\ thr' = [thr EXCEPT ![t] = [f EXCEPT !.pc = "created"]]
               /\ UNCHANGED <<session_created_at, now>>
          ELSE /\ thr' = [thr EXCEPT ![t] = [f EXCEPT !.pc = "request", !.handle = session,
                                   !.retAge = now - session_created_at]]
               /\ UNCHANGED smVars
    /\ UNCHANGED OutsideSession

\* create_session posts the handshake on whatever self.session now holds.
HandshakePosted(t) ==
    /\ thr[t].pc = "created"
    /\ thr' = [thr EXCEPT ![t].pc = "handshake", ![t].hs = session, ![t].nhs = @ + 1]
    /\ UNCHANGED <<smVars, nops, OutsideSession>>

\* the handshake is answered: get_session returns self.session, or raises.
HandshakeAnswered(t, status) ==
    /\ thr[t].pc = "handshake"
    /\ create_session_end(thr[t].hs, status)
    /\ thr' = [thr EXCEPT ![t] =
                 IF handshake_ok(status)
                 THEN [@ EXCEPT !.pc = "request", !.handle = session,
                                !.retAge = now - session_created_at']
                 ELSE [@ EXCEPT !.pc = "idle", !.outcome = "raised"]]
    /\ UNCHANGED <<session, now, nops, OutsideSession>>

\* session.post / session.get returns a response or raises.
RequestDone(t, ok) ==
    /\ thr[t].pc = "request"
    /\ thr' = [thr EXCEPT ![t] = [IdleThread EXCEPT
                                     !.outcome = IF ok THEN "response" ELSE "raised"]]
    /\ UNCHANGED <<smVars, nops, OutsideSession>>

TimePasses ==
    /\ now < MaxClock
    /\ now' = now + 1
    /\ UNCHANGED <<session, session_created_at, handshake, threadVars, OutsideSession>>

\* ------------------------------------------------------------------- files

CsvPath == "results/qualified_alphas.csv"
IdsPath == "results/alpha_ids.txt"
STORAGE_ALPHA_ID_PATH == "alpha_ids.txt"
Paths == {CsvPath, IdsPath, STORAGE_ALPHA_ID_PATH}

NoFile == [exists |-> FALSE, lines |-> <<>>]
FileOf(lines) == [exists |-> TRUE, lines |-> lines]

\* a Result as _simulate_single_alpha builds it (the timestamp is left out:
\* nothing reads it)
MakeResult(expression, alpha_id, qualified, metrics) ==
    [expression |-> expression, alpha_id |-> alpha_id,
     passed_all_checks |-> qualified, metrics |-> metrics]

HeaderLine == [kind |-> "header"]
RowLine(result) == [kind |-> "row", row |-> result]

\* open(path, 'a') and one write
AppendTo(file, lines) == FileOf(file.lines \o lines)

\* a plausible slip: header=True, the header goes in front of every row
csv_lines_HeaderAlways(file, result) == <<HeaderLine, RowLine(result)>>

\* df.to_csv(mode='a', header=not file_exists): the header goes in front of
\* the row when the file did not exist
csv_lines(file, result) ==
    (IF file.exists THEN <<>> ELSE <<HeaderLine>>) \o <<RowLine(result)>>

\* the two writes of _save_alpha_id: the row, then the identifier; a write
\* that fails raises, and what follows it is skipped
save_alpha_id_files(f, alpha_id, result, csv_ok, ids_ok) ==
    [f EXCEPT ![CsvPath] = IF csv_ok THEN AppendTo(@, csv_lines(@, result)) ELSE @,
              ![IdsPath] = IF csv_ok /\ ids_ok THEN AppendTo(@, <<alpha_id>>) ELSE @]

\* ------------------------------------------------- _simulate_single_alpha

Alphas == 1..NumAlphas
MainThread == NumThreads + 1

\* the identifier the remote service gives the alpha of candidate i: one per
\* distinct expression
AlphaIdOf(i) == i

\* the frame of _simulate_single_alpha; sent holds the kinds of request it
\* has issued, sim_status is sim_resp.status_code (0 before the answer),
\* last is the status of the response on which it failed (0 if none)
IdleRun == [pc |-> "idle", lk |-> "none", task |-> 0, alpha_id |-> 0, why |-> "",
            metrics |-> EmptyIs, last |-> 0, sent |-> {}, sim_status |-> 0]

\* what the poll location answers: a Retry-After header or none, an alpha
\* identifier in the body or none
MakePoll(status, retry_after, alpha) ==
    [status |-> status, retry_after |-> retry_after, alpha |-> alpha]

PollResponses(i) ==
    {MakePoll(200, <<5>>, <<>>), MakePoll(200, <<>>, <<>>), MakePoll(401, <<>>, <<>>),
     MakePoll(200, <<>>, <<AlphaIdOf(i)>>)}

\* float(headers.get("Retry-After", 0))
retry_after_sec(r) == IF r.retry_after = <<>> THEN 0 ELSE r.retry_after[1]

\* the future of the frame's task is set, the pool thread is free again
Finish(w, result) ==
    /\ future' = [future EXCEPT ![run[w].task] = [st |-> "finished", result |-> result]]
    /\ run' = [run EXCEPT ![w] = IdleRun]

\* a terminal failure: every path to "return None" prints under the lock first
Fail(w, why) == run' = [run EXCEPT ![w].pc = "fail", ![w].lk = "wait", ![w].why = why]

\* a plausible slip: acquire() with no release()
Release_Never(t) == UNCHANGED print_lock

\* the end of a "with self.print_lock:" block, also when it is left by an
\* exception
Release(t) == print_lock' = print_lock \ {t}

\* A pool thread takes the oldest queued task and calls _simulate_single_alpha.
TakeTask(w) ==
    /\ run[w].pc = "idle"
    /\ \E i \in Alphas :
        /\ future[i].st = "queued"
        /\ \A j \in 1..(i - 1) : future[j].st # "queued"
        /\ future' = [future EXCEPT ![i].st = "running"]
        /\ run' = [run EXCEPT ![w] = [IdleRun EXCEPT !.pc = "expr", !.lk = "wait", !.task = i]]
    /\ UNCHANGED <<main, print_lock, results_lock, results, progress, files, OutsideBatch>>

\* "with self.print_lock:" is entered by a pool thread.
AcquirePrint(w) ==
    /\ run[w].lk = "wait"
    /\ print_lock = {}
    /\ print_lock' = {w}
    /\ run' = [run EXCEPT ![w].lk = "hold"]
    /\ UNCHANGED <<future, main, results_lock, results, progress, files, OutsideBatch>>

\* the expression is printed, the simulation POST is sent
ExprPrinted(w) ==
    /\ run[w].pc = "expr" /\ run[w].lk = "hold"
    /\ Release(w)
    /\ run' = [run EXCEPT ![w].pc = "submit", ![w].lk = "none",
                          ![w].sent = @ \cup {"submit"}]
    /\ UNCHANGED <<future, main, results_lock, results, progress, files, OutsideBatch>>

\* a plausible slip: the status of the submission is not looked at
submit_accepted_Unchecked(status) == TRUE

\* "if sim_resp.status_code != 201: ... return None"
submit_accepted(status) == status = 201

\* the simulation POST is answered
SubmitAnswered(w, status, location) ==
    /\ run[w].pc = "submit"
    /\ IF ~submit_accepted(status)
       THEN run' = [run EXCEPT ![w].pc = "fail", ![w].lk = "wait",
                               ![w].why = "status", ![w].last = status,
                               ![w].sim_status = status]
       ELSE IF ~location
       THEN run' = [run EXCEPT ![w].pc = "fail", ![w].lk = "wait",
                               ![w].why = "location", ![w].last = status,
                               ![w].sim_status = status]
       ELSE run' = [run EXCEPT ![w].pc = "poll",
                               ![w].sim_status = status,
                               ![w].sent = @ \cup {"poll"}]
    /\ UNCHANGED <<future, main, print_lock, results_lock, results, progress, files, OutsideBatch>>

\* self.session.post / get raises, or the body is not JSON
RequestRaised(w) ==
    /\ run[w].pc \in {"submit", "poll", "detail"}
    /\ Fail(w, "exception")
    /\ UNCHANGED <<future, main, print_lock, results_lock, results, progress, files, OutsideBatch>>

\* a poll GET is answered
PollAnswered(w, r) ==
    /\ run[w].pc = "poll"
    /\ IF retry_after_sec(r) = 0
       THEN IF r.alpha = <<>>
            THEN run' = [run EXCEPT ![w].pc = "fail", ![w].lk = "wait",
                                    ![w].why = "alpha", ![w].last = r.status]
            ELSE run' = [run EXCEPT ![w].pc = "id", ![w].lk = "wait",
                                    ![w].alpha_id = r.alpha[1]]
       ELSE run' = [run EXCEPT ![w].pc = "poll_sleep"]
    /\ UNCHANGED <<future, main, print_lock, results_lock, results, progress, files, OutsideBatch>>

\* sleep(retry_after_sec) ends, the next poll GET is sent
PollSlept(w) ==
    /\ run[w].pc = "poll_sleep"
    /\ run' = [run EXCEPT ![w].pc = "poll"]
    /\ UNCHANGED <<future, main, print_lock, results_lock, results, progress, files, OutsideBatch>>

\* the alpha identifier is printed, sleep(3) starts
IdPrinted(w) ==
    /\ run[w].pc = "id" /\ run[w].lk = "hold"
    /\ Release(w)
    /\ run' = [run EXCEPT ![w].pc = "settle", ![w].lk = "none"]
    /\ UNCHANGED <<future, main, results_lock, results, progress, files, OutsideBatch>>

\* sleep(3) ends, the detail GET is sent
Settled(w) ==
    /\ run[w].pc = "settle"
    /\ run' = [run EXCEPT ![w].pc = "detail", ![w].sent = @ \cup {"detail"}]
    /\ UNCHANGED <<future, main, print_lock, results_lock, results, progress, files, OutsideBatch>>

\* the detail GET is answered; check_alpha_qualification runs up to its
\* first print block
DetailAnswered(w, body) ==
    /\ run[w].pc = "detail"
    /\ IF body = <<>> THEN Fail(w, "is")
       ELSE LET m == body[1] IN
            run' = [run EXCEPT ![w].metrics = m, ![w].lk = "wait",
                       ![w].pc = IF is_empty(m) THEN "q_empty"
                                 ELSE IF raises_before_print(m) THEN "q_error"
                                 ELSE "q_metrics"]
    /\ UNCHANGED <<future, main, print_lock, results_lock, results, progress, files, OutsideBatch>>

\* check_alpha_qualification has printed the metrics and enters its second block
MetricsPrinted(w) ==
    /\ run[w].pc = "q_metrics" /\ run[w].lk = "hold"
    /\ Release(w)
    /\ run' = [run EXCEPT ![w].pc = "q_verdict", ![w].lk = "wait"]
    /\ UNCHANGED <<future, main, results_lock, results, progress, files, OutsideBatch>>

\* check_alpha_qualification returns; the Result is the future's result
QualificationDone(w) ==
    /\ run[w].pc \in {"q_verdict", "q_empty", "q_error"} /\ run[w].lk = "hold"
    /\ Release(w)
    /\ Finish(w, <<MakeResult(run[w].task, run[w].alpha_id,
                              check_alpha_qualification(run[w].metrics), run[w].metrics)>>)
    /\ UNCHANGED <<main, results_lock, results, progress, files, OutsideBatch>>

\* the failure is printed, _simulate_single_alpha returns None
FailPrinted(w) ==
    /\ run[w].pc = "fail" /\ run[w].lk = "hold"
    /\ Release(w)
    /\ Finish(w, <<>>)
    /\ UNCHANGED <<main, results_lock, results, progress, files, OutsideBatch>>

\* --------------------------------------------------------- simulate_alphas

IdleMain == [pc |-> "as_completed", lk |-> "none", cur |-> 0]

AllYielded(fut) == \A i \in Alphas : fut[i].st = "yielded"

\* a plausible slip: the loop ends at the first candidate without a Result
LoopPc_StopOnFailure(fut, cur) ==
    IF AllYielded(fut) \/ fut[cur].result = <<>> THEN "returned" ELSE "as_completed"

\* as_completed is exhausted once every future has been yielded
LoopPc(fut, cur) == IF AllYielded(fut) THEN "returned" ELSE "as_completed"

\* a plausible slip: the progress is updated under "if result", and the
\* turn for a failed candidate does not count
NextCandidate_Uncounted ==
    /\ progress' = IF future[main.cur].result # <<>> THEN progress + 1 ELSE progress
    /\ main' = [IdleMain EXCEPT !.pc = LoopPc(future, main.cur)]

\* total_pbar.update(1) and the next turn of the loop
NextCandidate ==
    /\ progress' = progress + 1
    /\ main' = [IdleMain EXCEPT !.pc = LoopPc(future, main.cur)]

\* a plausible slip: "if result:" without the verdict
keeps_Any(result) == result # <<>>

\* "if result and result.get('passed_all_checks')"
keeps(result) == result # <<>> /\ result[1].passed_all_checks

\* as_completed yields a finished future
AsCompleted(i) ==
    /\ main.pc = "as_completed"
    /\ future[i].st = "finished"
    /\ future' = [future EXCEPT ![i].st = "yielded"]
    /\ main' = [pc |-> "done", lk |-> "wait", cur |-> i]
    /\ UNCHANGED <<run, print_lock, results_lock, results, progress, files, OutsideBatch>>

\* "with self.print_lock:" is entered by the thread running simulate_alphas.
MainAcquirePrint ==
    /\ main.lk = "wait"
    /\ print_lock = {}
    /\ print_lock' = {MainThread}
    /\ main' = [main EXCEPT !.lk = "hold"]
    /\ UNCHANGED <<future, run, results_lock, results, progress, files, OutsideBatch>>

\* the completion is printed; a kept Result is appended under results_lock
\* and _save_alpha_id starts (os.makedirs succeeds or raises)
DonePrinted(makedirs_ok) ==
    /\ main.pc = "done" /\ main.lk = "hold"
    /\ Release(MainThread)
    /\ IF keeps(future[main.cur].result)
       THEN /\ results_lock = {}
            /\ results_lock' = {MainThread}
            /\ results' = Append(results, future[main.cur].result[1])
            /\ main' = [main EXCEPT !.pc = IF makedirs_ok THEN "save" ELSE "save_error",
                                    !.lk = "wait"]
            /\ UNCHANGED progress
       ELSE /\ NextCandidate
            /\ UNCHANGED <<results_lock, results>>
    /\ UNCHANGED <<future, run, files, OutsideBatch>>

\* _save_alpha_id writes the row and the identifier under print_lock
SaveWritten(csv_ok, ids_ok) ==
    /\ main.pc = "save" /\ main.lk = "hold"
    /\ LET result == future[main.cur].result[1] IN
       files' = save_alpha_id_files(files, result.alpha_id, result, csv_ok, ids_ok)
    /\ Release(MainThread)
    /\ IF csv_ok /\ ids_ok
       THEN /\ results_lock' = {}
            /\ NextCandidate
       ELSE /\ main' = [main EXCEPT !.pc = "save_error", !.lk = "wait"]
            /\ UNCHANGED <<results_lock, progress>>
    /\ UNCHANGED <<future, run, results, OutsideBatch>>

\* _save_alpha_id's except clause has printed; results_lock is released
SaveErrorPrinted ==
    /\ main.pc = "save_error" /\ main.lk = "hold"
    /\ Release(MainThread)
    /\ results_lock' = {}
    /\ NextCandidate
    /\ UNCHANGED <<future, run, results, files, OutsideBatch>>

\* ------------------------------------------------------------ submit_alpha

num_to_submit == 2       \* submit_alpha_ids(brain, num_to_submit=2)
submit_attempts == 5     \* for attempt in range(5)

\* identifiers _save_alpha_id is called with, and what alpha_ids.txt holds
\* when the submission driver starts (0 is a blank line)
SavedIds == {1, 2}
StoredLists == {<<>>, <<1, 0, 2>>, <<1, 1>>, <<2, 1, 3>>}
SubmitStatuses == {201, 400, 403, 500}
ConfirmStatuses == {200, 404}

resend_pause == 3         \* sleep(3) before the POST is sent again

\* what one call of submit_alpha did: the statuses its POSTs were answered
\* with, the sleeps before a resend, whether a confirmation GET was sent,
\* whether one was answered with a Retry-After, the status of the GET that
\* ended the polling (0 if none), and the value returned
NoReport ==
    [id |-> 0, posts |-> <<>>, naps |-> <<>>, polled |-> FALSE, waited |-> FALSE,
     final |-> 0, ok |-> FALSE]

IdleDriver ==
    [pc |-> "idle", alpha_ids |-> <<>>, selected |-> <<>>, k |-> 0, attempt |-> 0,
     successful |-> <<>>, failed |-> <<>>, pauses |-> 0, outcome |-> "none",
     pending |-> {},
     posts |-> <<>>, naps |-> <<>>, polled |-> FALSE, waited |-> FALSE, final |-> 0,
     report |-> NoReport]

Range(q) == {q[n] : n \in 1..Len(q)}

RECURSIVE Filter(_, _)
\* [x for x in q if x not in drop]
Filter(q, drop) ==
    IF q = <<>> THEN <<>>
    ELSE (IF Head(q) \in drop THEN <<>> ELSE <<Head(q)>>) \o Filter(Tail(q), drop)

\* [line.strip() for line in f.readlines() if line.strip()]
read_ids(file) == Filter(file.lines, {0})

Min(a, b) == IF a < b THEN a ELSE b

\* the path submit_alpha_ids reads and rewrites
storage_path == STORAGE_ALPHA_ID_PATH

\* submit_alpha has returned ok for selected[k]: the identifier joins
\* successful or failed, then sleep(10) unless it equals the last one, then
\* the next identifier, or the return to submit_alpha_ids
AfterSubmit(d, ok) ==
    LET id == d.selected[d.k]
        e == [d EXCEPT !.successful = IF ok THEN Append(@, id) ELSE @,
                       !.failed = IF ok THEN @ ELSE Append(@, id),
                       !.attempt = 0,
                       !.report = [id |-> id, posts |-> d.posts, naps |-> d.naps,
                                   polled |-> d.polled, waited |-> d.waited,
                                   final |-> d.final, ok |-> ok],
                       !.posts = <<>>, !.naps = <<>>, !.polled = FALSE,
                       !.waited = FALSE, !.final = 0]
    IN  IF id # d.selected[Len(d.selected)]
        THEN [e EXCEPT !.pc = "pause", !.pauses = @ + 1]
        ELSE IF d.k < Len(d.selected)
        THEN [e EXCEPT !.pc = "post", !.k = @ + 1, !.attempt = 1]
        ELSE [e EXCEPT !.pc = "rewrite"]

\* the end of submit_alpha_ids: alpha_ids.txt is rewritten without the
\* identifiers submitted
Returns(d) ==
    IF d.pc = "rewrite"
    THEN /\ files' = [files EXCEPT ![storage_path] =
                         FileOf(Filter(d.alpha_ids, Range(d.successful)))]
         /\ drv' = [d EXCEPT !.pc = "idle", !.outcome = "rewritten"]
    ELSE /\ drv' = d
         /\ UNCHANGED files

\* _save_alpha_id(alpha_id, result), called outside a run of the driver
SaveAlphaId(alpha_id, makedirs_ok, csv_ok, ids_ok) ==
    /\ drv.pc = "idle"
    /\ nsaves < MaxSaves
    /\ nsaves' = nsaves + 1
    /\ LET result == MakeResult(alpha_id, alpha_id, TRUE, GoodIs)
           ok == makedirs_ok /\ csv_ok /\ ids_ok
       IN /\ files' = IF makedirs_ok
                      THEN save_alpha_id_files(files, alpha_id, result, csv_ok, ids_ok)
                      ELSE files
          /\ appended' = IF ok THEN appended \cup {alpha_id} ELSE appended
    /\ UNCHANGED <<drv, submitted, nruns, OutsideStore>>

\* submit_alpha_ids(brain) is called: the file is read, the first
\* identifiers are selected and the first submit POST is sent
SubmitAlphaIds ==
    /\ drv.pc = "idle"
    /\ nruns < MaxRuns
    /\ nruns' = nruns + 1
    /\ LET d == [IdleDriver EXCEPT !.pending = appended \ submitted]
           alpha_ids == read_ids(files[storage_path])
       IN drv' = IF ~files[storage_path].exists THEN [d EXCEPT !.outcome = "no_file"]
                 ELSE IF alpha_ids = <<>> THEN [d EXCEPT !.outcome = "empty"]
                 ELSE [d EXCEPT !.pc = "post", !.alpha_ids = alpha_ids,
                          !.selected = SubSeq(alpha_ids, 1, Min(num_to_submit, Len(alpha_ids))),
                          !.k = 1, !.attempt = 1]
    /\ UNCHANGED <<files, appended, submitted, nsaves, OutsideStore>>

\* the submit POST is answered
PostAnswered(status) ==
    /\ drv.pc = "post"
    /\ LET d == [drv EXCEPT !.posts = Append(@, status)] IN
       IF status = 201
       THEN Returns([d EXCEPT !.pc = "confirm"]) /\ UNCHANGED submitted
       ELSE IF status \in {400, 403}
       THEN Returns(AfterSubmit(d, FALSE)) /\ UNCHANGED submitted
       ELSE Returns([d EXCEPT !.pc = "resend_sleep"]) /\ UNCHANGED submitted
    /\ UNCHANGED <<appended, nsaves, nruns, OutsideStore>>

\* a plausible slip: one POST too many
more_attempts_OneMore(attempt) == attempt <= submit_attempts

\* for attempt in range(5): whether the loop has another iteration
more_attempts(attempt) == attempt < submit_attempts

\* sleep(3) ends: the POST is sent again, or the attempts are used up
ResendSlept ==
    /\ drv.pc = "resend_sleep"
    /\ LET d == [drv EXCEPT !.naps = Append(@, resend_pause)] IN
       IF more_attempts(d.attempt)
       THEN Returns([d EXCEPT !.pc = "post", !.attempt = @ + 1])
       ELSE Returns(AfterSubmit(d, FALSE))
    /\ UNCHANGED <<appended, submitted, nsaves, nruns, OutsideStore>>

\* the confirmation GET is answered
ConfirmAnswered(status, retry) ==
    /\ drv.pc = "confirm"
    /\ LET d == [drv EXCEPT !.polled = TRUE, !.waited = @ \/ retry # 0,
                            !.final = IF retry = 0 THEN status ELSE @] IN
       IF retry = 0
       THEN /\ Returns(AfterSubmit(d, status = 200))
            /\ submitted' = IF status = 200
                            THEN submitted \cup {drv.selected[drv.k]} ELSE submitted
       ELSE /\ Returns([d EXCEPT !.pc = "confirm_sleep"])
            /\ UNCHANGED submitted
    /\ UNCHANGED <<appended, nsaves, nruns, OutsideStore>>

\* sleep(retry) ends, the next confirmation GET is sent
ConfirmSlept ==
    /\ drv.pc = "confirm_sleep"
    /\ drv' = [drv EXCEPT !.pc = "confirm"]
    /\ UNCHANGED <<files, appended, submitted, nsaves, nruns, OutsideStore>>

\* sleep(10) ends, the next identifier's POST is sent
PauseEnds ==
    /\ drv.pc = "pause"
    /\ IF drv.k < Len(drv.selected)
       THEN Returns([drv EXCEPT !.pc = "post", !.k = @ + 1, !.attempt = 1])
       ELSE Returns([drv EXCEPT !.pc = "rewrite"])
    /\ UNCHANGED <<appended, submitted, nsaves, nruns, OutsideStore>>

\* session.post / get raises inside submit_alpha: the exception reaches the
\* except clause of submit_alpha_ids, which prints and returns
SubmitRaises ==
    /\ drv.pc \in {"post", "confirm"}
    /\ drv' = [drv EXCEPT !.pc = "idle", !.outcome = "error"]
    /\ UNCHANGED <<files, appended, submitted, nsaves, nruns, OutsideStore>>

\* ========================================================== specifications

\* The state after SessionManager.__init__: the first handshake succeeded.
InitSession ==
    /\ session = 1
    /\ handshake = <<"ok">>
    /\ session_created_at = 0
    /\ now = 0

\* no call of request_with_retry under way
ParkedRetry == call = IdleCall /\ ncalls = 0

\* no thread inside post / get
ParkedThreads == thr = [t \in Threads |-> IdleThread] /\ nops = 0

\* the submission driver is idle, nothing was saved
ParkedStore ==
    /\ drv = IdleDriver
    /\ appended = {}
    /\ submitted = {}
    /\ nsaves = 0
    /\ nruns = 0

\* no run of simulate_alphas under way
ParkedBatch ==
    /\ future = [i \in Alphas |-> [st |-> "yielded", result |-> <<>>]]
    /\ run = [w \in Threads |-> IdleRun]
    /\ main = [IdleMain EXCEPT !.pc = "returned"]
    /\ print_lock = {}
    /\ results_lock = {}
    /\ results = <<>>
    /\ progress = 0

FreshFiles == [p \in Paths |-> NoFile]
ParkedFiles == files = FreshFiles

\* simulate_alphas on fresh files: every candidate is submitted to the pool
InitBatch ==
    /\ InitSession
    /\ ParkedRetry
    /\ ParkedThreads
    /\ future = [i \in Alphas |-> [st |-> "queued", result |-> <<>>]]
    /\ run = [w \in Threads |-> IdleRun]
    /\ main = IdleMain
    /\ print_lock = {}
    /\ results_lock = {}
    /\ results = <<>>
    /\ progress = 0
    /\ files = FreshFiles
    /\ ParkedStore
    /\ ParkedEval

NextBatch ==
    \/ \E w \in Threads : TakeTask(w)
    \/ \E w \in Threads : AcquirePrint(w)
    \/ \E w \in Threads : ExprPrinted(w)
    \/ \E w \in Threads, status \in {201, 401, 500}, location \in BOOLEAN :
          SubmitAnswered(w, status, location)
    \/ \E w \in Threads : RequestRaised(w)
    \/ \E w \in Threads : \E r \in PollResponses(run[w].task) : PollAnswered(w, r)
    \/ \E w \in Threads : PollSlept(w)
    \/ \E w \in Threads : IdPrinted(w)
    \/ \E w \in Threads : Settled(w)
    \/ \E w \in Threads, body \in DetailBodies : DetailAnswered(w, body)
    \/ \E w \in Threads : MetricsPrinted(w)
    \/ \E w \in Threads : QualificationDone(w)
    \/ \E w \in Threads : FailPrinted(w)
    \/ \E i \in Alphas : AsCompleted(i)
    \/ MainAcquirePrint
    \/ \E makedirs_ok \in BOOLEAN : DonePrinted(makedirs_ok)
    \/ \E csv_ok, ids_ok \in BOOLEAN : SaveWritten(csv_ok, ids_ok)
    \/ SaveErrorPrinted

Spec == InitBatch /\ [][NextBatch]_vars

\* simulate_alphas when every request returns.  The answers are one of each
\* kind the program tells apart: a submission accepted or not, with or
\* without Location; a poll answered 200 with a Retry-After, with an
\* identifier, or with neither; a detail body without 'is', with metrics
\* that qualify, or with metrics that make check_alpha_qualification raise;
\* a row that is written or not.
LiveStatuses == {201, 401}
LiveBodies == {<<>>, <<GoodIs>>, <<NullIs>>}

\* the steps of one pool thread
WorkerStep(w) ==
    \/ TakeTask(w)
    \/ AcquirePrint(w)
    \/ ExprPrinted(w)
    \/ \E status \in LiveStatuses, location \in BOOLEAN : SubmitAnswered(w, status, location)
    \/ \E r \in PollResponses(run[w].task) : r.status = 200 /\ PollAnswered(w, r)
    \/ PollSlept(w)
    \/ IdPrinted(w)
    \/ Settled(w)
    \/ \E body \in LiveBodies : DetailAnswered(w, body)
    \/ MetricsPrinted(w)
    \/ QualificationDone(w)
    \/ FailPrinted(w)

\* the steps of the thread that called simulate_alphas
MainStep ==
    \/ \E i \in Alphas : AsCompleted(i)
    \/ MainAcquirePrint
    \/ \E makedirs_ok \in BOOLEAN : DonePrinted(makedirs_ok)
    \/ \E csv_ok \in BOOLEAN : SaveWritten(csv_ok, TRUE)
    \/ SaveErrorPrinted

\* the poll location answers without a Retry-After header
PollCompletes(w) ==
    \E r \in PollResponses(run[w].task) :
        r.status = 200 /\ retry_after_sec(r) = 0 /\ PollAnswered(w, r)

NextLive ==
    \/ \E w \in Threads : WorkerStep(w)
    \/ MainStep

\* the program does not stop while a thread can run or a request is
\* awaited, and a poll location that is asked again and again ends up
\* answering without a Retry-After
Fairness ==
    /\ WF_vars(NextLive)
    /\ \A w \in Threads : SF_vars(PollCompletes(w))

SpecLive == InitBatch /\ [][NextLive]_vars /\ Fairness

\* _save_alpha_id and submit_alpha_ids on the files; alpha_ids.txt is absent
\* or holds what the user left in it
InitStore ==
    /\ InitSession
    /\ ParkedRetry
    /\ ParkedThreads
    /\ ParkedBatch
    /\ ParkedStore
    /\ ParkedEval
    /\ \E stored \in {NoFile} \cup {FileOf(l) : l \in StoredLists} :
          files = [FreshFiles EXCEPT ![STORAGE_ALPHA_ID_PATH] = stored]

NextStore ==
    \/ \E id \in SavedIds, makedirs_ok, csv_ok, ids_ok \in BOOLEAN :
          SaveAlphaId(id, makedirs_ok, csv_ok, ids_ok)
    \/ SubmitAlphaIds
    \/ \E status \in SubmitStatuses : PostAnswered(status)
    \/ ResendSlept
    \/ \E status \in ConfirmStatuses, retry \in {0, 5} : ConfirmAnswered(status, retry)
    \/ ConfirmSlept
    \/ PauseEnds
    \/ SubmitRaises

SpecStore == InitStore /\ [][NextStore]_vars

\* submit_alpha_ids alone, on the list the user left in alpha_ids.txt
NextSubmit ==
    \/ SubmitAlphaIds
    \/ \E status \in SubmitStatuses : PostAnswered(status)
    \/ ResendSlept
    \/ \E status \in ConfirmStatuses, retry \in {0, 5} : ConfirmAnswered(status, retry)
    \/ ConfirmSlept
    \/ PauseEnds
    \/ SubmitRaises

SpecSubmit == InitStore /\ [][NextSubmit]_vars

\* request_with_retry, one caller
InitRetry ==
    /\ InitSession
    /\ ParkedRetry
    /\ ParkedThreads
    /\ ParkedBatch
    /\ ParkedFiles
    /\ ParkedStore
    /\ ParkedEval

NextRetry ==
    \/ \E m \in Methods : Call(m)
    \/ \E s \in Statuses : RequestReturns(s)
    \/ RequestRaises
    \/ SleepEnds
    \/ \E s \in HandshakeStatuses : HandshakeReturns(s)
    \/ Elapse

SpecRetry == InitRetry /\ [][NextRetry]_vars

\* post / get from several threads
InitThreads ==
    /\ InitSession
    /\ ParkedRetry
    /\ ParkedThreads
    /\ ParkedBatch
    /\ ParkedFiles
    /\ ParkedStore
    /\ ParkedEval

NextThreads ==
    \/ \E t \in Threads, op \in {"post", "get"} : SessionCall(t, op)
    \/ \E t \in Threads : HandshakePosted(t)
    \/ \E t \in Threads, s \in HandshakeStatuses : HandshakeAnswered(t, s)
    \/ \E t \in Threads, ok \in BOOLEAN : RequestDone(t, ok)
    \/ TimePasses

SpecSession == InitThreads /\ [][NextThreads]_vars

\* check_alpha_qualification on one payload
InitEval ==
    /\ InitSession
    /\ ParkedRetry
    /\ ParkedThreads
    /\ ParkedBatch
    /\ ParkedFiles
    /\ ParkedStore
    /\ \E m \in Reports : evaluation = [NotCalled EXCEPT !.is_data = m]

NextEval == Evaluate

SpecEval == InitEval /\ [][NextEval]_vars

\* ================================================================== files

RowsOf(id) ==
    {k \in 1..Len(files[CsvPath].lines) :
        /\ files[CsvPath].lines[k].kind = "row"
        /\ files[CsvPath].lines[k].row.alpha_id = id}

\* C9: every identifier in the flat list _save_alpha_id appends to has
\* exactly one row in the tabular store.
C9_OneRowPerIdentifier ==
    \A id \in Range(files[IdsPath].lines) : Cardinality(RowsOf(id)) = 1

\* C10: the identifiers a run of submit_alpha_ids reads include every
\* identifier _save_alpha_id had appended before it and that was not yet
\* submitted successfully.
C10_DriverReadsAppended == drv.pending \subseteq Range(drv.alpha_ids)

\* ========================================================= simulate_alphas

Kept(i) == future[i].result # <<>> /\ future[i].result[1].passed_all_checks

ResultSet == {results[k] : k \in 1..Len(results)}

CsvRows ==
    {files[CsvPath].lines[k].row :
        k \in {n \in 1..Len(files[CsvPath].lines) : files[CsvPath].lines[n].kind = "row"}}

\* C7: when simulate_alphas returns, every candidate has run to its own
\* outcome, whatever happened to the others, and the returned list holds
\* exactly the Results of the candidates whose runner ended with a Result
\* and a qualified verdict, each once.  (simulate_alphas has no path that
\* raises: every handler of the loop catches and prints.)
C7_FailuresIsolated ==
    main.pc = "returned" =>
        /\ \A i \in Alphas : future[i].st = "yielded"
        /\ ResultSet = {future[i].result[1] : i \in {j \in Alphas : Kept(j)}}
        /\ Len(results) = Cardinality({j \in Alphas : Kept(j)})

C7_Witness ==
    /\ main.pc = "returned"
    /\ \E i, j \in Alphas :
        /\ future[i].result = <<>>
        /\ Kept(j)
        /\ results = <<future[j].result[1]>>

\* C8: every Result in the returned list and every row of the tabular store
\* has a true verdict and a non-empty metrics payload, and no candidate of
\* this run without such a Result has a row or an entry.
C8_OnlyQualifiedKept ==
    /\ \A r \in ResultSet \cup CsvRows :
          /\ r.passed_all_checks
          /\ ~is_empty(r.metrics)
    /\ \A r \in ResultSet : Kept(r.expression)
    /\ \A r \in CsvRows : Kept(r.expression)

C8_Witness ==
    \E i, j \in Alphas :
        /\ future[i].st = "yielded" /\ future[j].st = "yielded"
        /\ future[i].result # <<>> /\ ~future[i].result[1].passed_all_checks
        /\ main.pc = "returned"
        /\ Kept(j)
        /\ future[j].result[1] \in CsvRows
        /\ future[i].result[1] \notin CsvRows

\* ===================================================== request_with_retry

Terminal == call.pc \in {"returned", "raised"}

\* attempts that ended in the 401 branch, then one that returned
Only401ThenReturn(a) ==
    /\ Len(a) >= 1
    /\ a[Len(a)] = "return"
    /\ \A i \in 1..(Len(a) - 1) : a[i] = "401"

AllTransport(a) ==
    /\ Len(a) = max_retries
    /\ \A i \in 1..Len(a) : a[i] = "transport"

\* C1: a call started on a non-expired session whose attempts are answered
\* by k < max_retries 401 responses and then a non-401 response performs
\* exactly k create_session calls and returns that last response.
C1_RecreatePer401 ==
    (call.pc = "returned" /\ call.startedValid /\ Only401ThenReturn(call.attempts))
        => /\ call.recreations = Len(call.attempts) - 1
           /\ call.response = call.received
           /\ call.response # <<>>
           /\ call.response[1] # 401

C1_Witness ==
    /\ call.pc = "returned"
    /\ call.startedValid
    /\ call.attempts = <<"401", "401", "return">>
    /\ call.response = <<200>>
    /\ call.recreations = 2

\* C2 (as stated): three transport failures raise to the caller after
\* exactly 3 create_session calls.
C2_ThreeRecreations ==
    (Terminal /\ call.startedValid /\ AllTransport(call.attempts))
        => (call.pc = "raised" /\ call.recreations = 3)

\* C2 (amended): three transport failures raise to the caller after exactly
\* max_retries - 1 = 2 create_session calls and 2 pauses: the last failure
\* re-raises without recreating the session.
C2_TwoRecreations ==
    (Terminal /\ call.startedValid /\ AllTransport(call.attempts))
        => /\ call.pc = "raised"
           /\ call.recreations = max_retries - 1
           /\ call.pauses = max_retries - 1

C2_Witness ==
    /\ call.pc = "raised"
    /\ call.startedValid
    /\ AllTransport(call.attempts)
    /\ call.recreations = 2

\* C3: a call that has used up all max_retries attempts ends by raising; it
\* never returns normally without a response.
C3_ExhaustionRaises ==
    /\ (Terminal /\ call.retries >= max_retries) => call.pc = "raised"
    /\ call.pc = "returned" => call.response # <<>>

\* C4: an unsupported verb raises the usage error on the first attempt, with
\* no pause, no create_session call and no second attempt.
C4_UsageErrorImmediate ==
    (call.pc # "idle" /\ call.startedValid /\ lower(call.method) \notin {"get", "post"})
        => /\ call.pc = "raised"
           /\ call.error = "ValueError"
           /\ call.pauses = 0
           /\ call.recreations = 0
           /\ Len(call.attempts) = 1

\* ============================================================= get_session

Returned(f) == f.handle # 0

\* C5: get_session returns the stored handle without a handshake when the
\* handle's age is within the validity window; otherwise it performs exactly
\* one handshake on a replaced handle and, when it returns, the creation time
\* has been reset.  Every handle it returns has age at most the window.
C5_AcquireWithinWindow ==
    \A t \in Threads :
        LET f == thr[t] IN
        /\ Returned(f) =>
              /\ f.retAge <= session_valid_duration
              /\ f.entryValid => (f.nhs = 0 /\ f.handle = f.entrySession)
              /\ ~f.entryValid => (f.nhs = 1 /\ f.handle # f.entrySession /\ f.retAge = 0)
        /\ (f.pc = "idle" /\ f.outcome = "raised" /\ ~f.entryValid) => f.nhs = 1

C5_Witness ==
    \E t, u \in Threads :
        /\ Returned(thr[t]) /\ thr[t].entryValid
        /\ thr[t].retAge = session_valid_duration
        /\ Returned(thr[u]) /\ ~thr[u].entryValid /\ thr[u].nhs = 1

\* C6: at no time are two threads inside create_session, and no thread
\* obtains or uses a handle whose handshake is still pending.
C6_SessionCriticalSection ==
    /\ Cardinality({t \in Threads : thr[t].pc \in {"created", "handshake"}}) <= 1
    /\ \A t \in Threads : thr[t].pc = "request" => handshake[thr[t].handle] # "pending"

\* ------------------------------------------------- submit_alpha_ids claims

\* a run of submit_alpha_ids that went as far as submitting has ended
RunEnded == drv.pc = "idle" /\ drv.outcome \in {"rewritten", "error"}

\* C11: after a run of submit_alpha_ids the list holds, in their original
\* order, exactly the identifiers read that were not submitted successfully
\* in the run, also when a later submission of the run raised.
C11_SucceededRemoved ==
    RunEnded =>
        read_ids(files[storage_path]) = Filter(drv.alpha_ids, Range(drv.successful))

\* -------------------------------------- check_alpha_qualification claims

Evaluated == evaluation.pc = "returned" /\ evaluation.printed # "none"

\* the metric reported under a key, 0 when the key is missing
Reported(x) == IF x.t = "absent" THEN 0 ELSE x.v

\* the four numeric thresholds of the rubric, on hundredths
SharpeOk(m) == Reported(m.sharpe) >= 150
FitnessOk(m) == Reported(m.fitness) >= 100
TurnoverLowOk(m) == Reported(m.turnover) >= 10
TurnoverHighOk(m) == Reported(m.turnover) <= 90
IcMeanOk(m) == Reported(m.margin) >= 2
FourThresholdsOk(m) ==
    SharpeOk(m) /\ FitnessOk(m) /\ TurnoverLowOk(m) /\ TurnoverHighOk(m) /\ IcMeanOk(m)

\* the entries of the checks collection of a report
ChecksIn(m) == IF m.has_checks THEN Range(m.checks) ELSE {}
SubChecksIn(m) == {c \in ChecksIn(m) : c.name = <<SubUniverse>>}

\* every numeric field of the report is a number or missing, and every
\* check carries a name
NumbersOrMissing(m) ==
    /\ \A x \in {m.sharpe, m.fitness, m.turnover, m.margin} : x.t # "null"
    /\ \A c \in ChecksIn(m) : c.value.t # "null" /\ c.limit.t # "null"
AllNamed(m) == \A c \in ChecksIn(m) : c.name # <<>>
AllPass(m) == \A c \in ChecksIn(m) : c.result = <<"PASS">>

\* the sub-universe sharpe reaches its limit, in every check reporting it
SubUniverseOk(m) ==
    \A c \in SubChecksIn(m) : Reported(c.value) >= Reported(c.limit)

\* C12: a report that meets the five thresholds (boundary values included)
\* and whose named checks all report PASS is qualified.
C12_MeetingAllQualifies ==
    LET m == evaluation.is_data IN
    (/\ Evaluated /\ NumbersOrMissing(m) /\ AllNamed(m)
     /\ FourThresholdsOk(m) /\ SubUniverseOk(m) /\ AllPass(m))
        => evaluation.is_qualified

\* a report at the exact boundary of every threshold was found qualified
C12_Witness ==
    LET m == evaluation.is_data IN
    /\ Evaluated /\ evaluation.is_qualified
    /\ m.sharpe = Num(150) /\ m.fitness = Num(100) /\ m.margin = Num(2)
    /\ m.turnover \in {Num(10), Num(90)}
    /\ \E c \in SubChecksIn(m) : c.value = Num(100) /\ c.limit = Num(100)
    /\ AllPass(m)

\* C13: a qualified report has no check whose result is anything but PASS.
C13_OnlyPassQualifies ==
    (Evaluated /\ evaluation.is_qualified) => AllPass(evaluation.is_data)

\* the criteria of the rubric a report violates
Violated(m) ==
    {c \in {"sharpe", "fitness", "turnover_low", "turnover_high", "ic_mean",
            "subuniverse_sharpe"} :
        \/ c = "sharpe" /\ ~SharpeOk(m)
        \/ c = "fitness" /\ ~FitnessOk(m)
        \/ c = "turnover_low" /\ ~TurnoverLowOk(m)
        \/ c = "turnover_high" /\ ~TurnoverHighOk(m)
        \/ c = "ic_mean" /\ ~IcMeanOk(m)
        \/ c = "subuniverse_sharpe" /\ ~SubUniverseOk(m)}

\* the report names the sub-universe sharpe at most once
OneSubUniverse(m) == Cardinality(SubChecksIn(m)) <= 1

\* the diagnostic line that reports a criterion
DiagnosticOf(c) == IF c \in {"turnover_low", "turnover_high"} THEN "turnover" ELSE c

\* C14: a report that violates exactly one criterion, all checks PASS, is
\* not qualified, and the diagnostics mark that criterion alone as failed.
C14_SingleViolationNamed ==
    LET m == evaluation.is_data IN
    (/\ Evaluated /\ NumbersOrMissing(m) /\ AllNamed(m) /\ AllPass(m)
     /\ OneSubUniverse(m) /\ Cardinality(Violated(m)) = 1)
        => /\ ~evaluation.is_qualified
           /\ evaluation.printed = "criteria"
           /\ evaluation.failed = {DiagnosticOf(c) : c \in Violated(m)}

\* a report whose turnover alone is too high was evaluated
C14_Witness ==
    LET m == evaluation.is_data IN
    /\ Evaluated /\ NumbersOrMissing(m) /\ AllNamed(m) /\ AllPass(m)
    /\ OneSubUniverse(m) /\ Violated(m) = {"turnover_high"}
    /\ evaluation.failed = {"turnover"}
    /\ ~evaluation.is_qualified

\* the report has no checks collection, or no sub-universe check in it
NoSubUniverse(m) == SubChecksIn(m) = {}

\* C15 as stated: with the sub-universe check missing, the verdict is
\* qualified exactly when the four numeric thresholds pass.
C15_FourThresholdsDecide ==
    LET m == evaluation.is_data IN
    (Evaluated /\ NumbersOrMissing(m) /\ NoSubUniverse(m))
        => (evaluation.is_qualified <=> FourThresholdsOk(m))

\* C15, amended: missing numeric fields count as 0 and a verdict is always
\* returned; with the sub-universe check missing, the verdict is qualified
\* exactly when the four numeric thresholds pass, every check present has a
\* name and no check reports FAIL or PENDING.
C15_MissingFieldsVerdict ==
    LET m == evaluation.is_data IN
    (Evaluated /\ NumbersOrMissing(m) /\ NoSubUniverse(m))
        => /\ evaluation.is_qualified \in BOOLEAN
           /\ evaluation.is_qualified <=>
                 /\ FourThresholdsOk(m)
                 /\ AllNamed(m)
                 /\ \A c \in ChecksIn(m) : c.result \notin {<<"FAIL">>, <<"PENDING">>}

\* a report without a sub-universe check was evaluated: its four metrics
\* pass, one of its checks reports FAIL, and the verdict is not qualified
C15_Witness ==
    LET m == evaluation.is_data IN
    /\ Evaluated /\ NumbersOrMissing(m) /\ NoSubUniverse(m) /\ AllNamed(m)
    /\ FourThresholdsOk(m)
    /\ \E c \in ChecksIn(m) : c.result = <<"FAIL">>
    /\ ~evaluation.is_qualified

\* C17: a run of submit_multiple_alphas pauses once after every submission
\* but the last: len(ids) - 1 pauses in all.
C17_PauseBetweenEach ==
    (drv.pc = "idle" /\ drv.outcome = "rewritten")
        => drv.pauses = Len(drv.selected) - 1

\* ----------------------------------------------------- submit_alpha claims

\* the POST statuses after which submit_alpha sends nothing more, or polls
Conclusive == {201, 400, 403}

\* C16: submit_alpha returns True exactly when the last of its at most 5
\* POSTs was answered 201, after POSTs answered with other statuses than
\* 201, 400 and 403, and the polling ended with status 200.  A POST answered
\* 201, 400 or 403 is the last one, no GET follows a 400 or 403, and every
\* resend comes after a sleep of 3.
C16_SubmitAlphaVerdict ==
    LET r == drv.report
        n == Len(r.posts)
    IN  /\ r.id # 0 =>
              /\ n \in 1..submit_attempts
              /\ \A i \in 1..(n - 1) : r.posts[i] \notin Conclusive
              /\ r.posts[n] \in {400, 403} => ~r.polled
              /\ r.polled <=> r.posts[n] = 201
              /\ Len(r.naps) >= n - 1
              /\ \A i \in 1..Len(r.naps) : r.naps[i] = 3
              /\ r.ok <=> (r.posts[n] = 201 /\ r.final = 200)
        \* the call under way
        /\ Len(drv.posts) <= submit_attempts
        /\ drv.pc = "post" =>
              /\ Len(drv.posts) = drv.attempt - 1
              /\ Len(drv.naps) = drv.attempt - 1
              /\ \A i \in 1..Len(drv.posts) : drv.posts[i] \notin Conclusive
        /\ drv.pc \in {"confirm", "confirm_sleep"} =>
              drv.posts[Len(drv.posts)] = 201

\* POST 500, sleep, POST 201, GET with Retry-After, GET 200 without: success
C16_Witness ==
    /\ drv.report.ok
    /\ drv.report.posts = <<500, 201>>
    /\ drv.report.naps = <<3>>
    /\ drv.report.waited
    /\ drv.report.final = 200

\* ---------------------------------------- _simulate_single_alpha claims

\* C18: a candidate is not declared failed on an unauthorized response: the
\* response a runner fails on is never a 401.
C18_UnauthorizedRetried ==
    \A w \in Threads : run[w].pc = "fail" => run[w].last # 401

\* where a runner is once the detail payload with its 'is' section arrived
QualifyingPcs == {"q_metrics", "q_verdict", "q_empty", "q_error"}

\* what a runner that failed has sent, by the reason of the failure
FailuresAreTerminal ==
    \A w \in Threads :
        /\ "poll" \in run[w].sent => run[w].sim_status = 201
        /\ "detail" \in run[w].sent => run[w].alpha_id # 0
        /\ run[w].pc = "fail" =>
              /\ run[w].why \in {"status", "location"} => run[w].sent = {"submit"}
              /\ run[w].why = "status" => run[w].sim_status # 201
              /\ run[w].why = "alpha" => run[w].sent = {"submit", "poll"}
              /\ run[w].why = "is" => run[w].sent = {"submit", "poll", "detail"}
        /\ run[w].task # 0 => future[run[w].task].st = "running"

\* a runner that failed sends nothing more and ends with None; a Result
\* comes from a runner that sent all three requests and got an identifier
\* and an 'is' section
FailureStep ==
    /\ \A w \in Threads :
          run[w].pc = "fail" =>
              \/ run'[w] = [run[w] EXCEPT !.lk = run'[w].lk]
              \/ run'[w] = IdleRun /\ future'[run[w].task].result = <<>>
    /\ \A i \in Alphas :
          (future[i].result = <<>> /\ future'[i].result # <<>>) =>
              \E w \in Threads :
                  /\ run[w].task = i
                  /\ run[w].pc \in QualifyingPcs
                  /\ run[w].sent = {"submit", "poll", "detail"}
                  /\ run[w].sim_status = 201
                  /\ future'[i].result[1].alpha_id = run[w].alpha_id

\* C19: each terminal failure of the job runner (submission not answered
\* 201, no Location, completed poll without an alpha identifier, detail
\* without 'is') ends the candidate with no Result and with no request
\* after it; a Result is produced only after submission, polling and detail
\* all succeeded.
C19_TerminalFailures == []FailuresAreTerminal /\ [][FailureStep]_vars

\* a runner has failed on a completed poll without an identifier, another
\* candidate got its Result
C19_Witness ==
    /\ \E w \in Threads : run[w].pc = "fail" /\ run[w].why = "alpha"
    /\ \E i \in Alphas : future[i].result # <<>>

\* ------------------------------------------------------ persistence claims

\* the threads inside the section that appends to results and to the files
Persisting ==
    {t \in Threads \cup {MainThread} : t \in results_lock}
    \cup (IF main.pc \in {"save", "save_error"} THEN {MainThread} ELSE {})

\* the identifiers of the rows of the tabular store, in file order
RECURSIVE RowIds(_)
RowIds(lines) ==
    IF lines = <<>> THEN <<>>
    ELSE (IF Head(lines).kind = "row" THEN <<Head(lines).row.alpha_id>> ELSE <<>>)
         \o RowIds(Tail(lines))

\* a is b with some elements left out
RECURSIVE IsSubsequence(_, _)
IsSubsequence(a, b) ==
    IF a = <<>> THEN TRUE
    ELSE IF b = <<>> THEN FALSE
    ELSE IF Head(a) = Head(b) THEN IsSubsequence(Tail(a), Tail(b))
    ELSE IsSubsequence(a, Tail(b))

HeaderOnce(lines) ==
    lines # <<>> =>
        /\ lines[1].kind = "header"
        /\ \A k \in 2..Len(lines) : lines[k].kind = "row"

C21_HandleEstablished ==
    call.pc = "request" => handshake[call.handle] = "ok"

\* ---------------------------------------------------------- locking claims

\* the threads of a run of simulate_alphas, and whether one waits for the
\* print lock or holds it
lk(t) == IF t = MainThread THEN main.lk ELSE run[t].lk
Blocked(t) == lk(t) = "wait" /\ print_lock # {}

\* a thread with something left to do
Live(t) ==
    IF t = MainThread THEN main.pc # "returned"
    ELSE run[t].pc # "idle" \/ \E i \in Alphas : future[i].st = "queued"

\* C22: the print lock is never requested by the thread holding it, the
\* results lock is taken before the print lock and never the other way
\* round, and as long as simulate_alphas has not returned some thread can
\* take a step: the lock a blocked thread waits for is held by a thread
\* that is not blocked.
C22_DeadlockFree ==
    /\ \A t \in Threads \cup {MainThread} :
          /\ lk(t) = "wait" => t \notin print_lock
          /\ lk(t) = "hold" <=> t \in print_lock
          /\ Blocked(t) => \E h \in print_lock : ~Blocked(h)
    /\ results_lock \subseteq {MainThread}
    /\ main.pc = "done" => results_lock = {}
    /\ results_lock # {} => main.pc \in {"save", "save_error"}
    /\ main.pc # "returned" => ENABLED NextBatch
    /\ main.pc # "returned" => \E t \in Threads \cup {MainThread} : Live(t) /\ ~Blocked(t)

\* the thread in _save_alpha_id holds the results lock and waits for the
\* print lock, which a pool thread holds
C22_Witness ==
    /\ main.pc \in {"save", "save_error"} /\ main.lk = "wait"
    /\ results_lock = {MainThread}
    /\ \E w \in Threads : print_lock = {w}

\* ------------------------------------------------------ termination claims

\* simulate_alphas has returned: every candidate was counted once
AllCounted ==
    main.pc = "returned" =>
        /\ progress = NumAlphas
        /\ \A i \in Alphas : future[i].st = "yielded"
        /\ \A w \in Threads : run[w].pc = "idle"

\* a runner that slept after a positive Retry-After polls again, and the
\* progress count moves by one candidate at a time
PollStep ==
    /\ \A w \in Threads :
          run[w].pc = "poll_sleep" => run'[w].pc \in {"poll_sleep", "poll"}
    /\ progress' \in {progress, progress + 1}
    /\ progress' = progress + 1 =>
          main.cur \in Alphas /\ future[main.cur].st = "yielded"

\* C23: when every request is answered and every poll location ends up
\* answering without a Retry-After, simulate_alphas returns, having counted
\* every candidate exactly once whatever its outcome; a runner keeps
\* polling as long as it is told to retry.
C23_Terminates ==
    /\ <>(main.pc = "returned")
    /\ []AllCounted
    /\ [][PollStep]_vars

\* simulate_alphas has returned with one Result kept and a candidate
\* dropped, both counted
C23_Witness ==
    /\ main.pc = "returned"
    /\ progress = NumAlphas
    /\ Len(results) = 1
    /\ \E i \in Alphas : future[i].result = <<>>

=============================================================================
